---- MODULE Spec2Model ----
(***************************************************************************)
(* Model of the profile-website backend: the password hasher and the      *)
(* session-token issuer/validator of auth.py, the users table of          *)
(* models.py and the API routes of main.py.                               *)
(*                                                                         *)
(* Strings are sequences of characters; character 0 is NUL.  The          *)
(* cryptographic primitives are symbolic: PBKDF2 and the HMAC signature   *)
(* are injective in the HMAC key they are given, and the HMAC key of a    *)
(* string is the string zero-padded to the block size (RFC 2104), so      *)
(* strings that differ only in trailing NUL characters share a key.       *)
(* Time is counted in ticks, TicksPerSecond of them to a second.          *)
(***************************************************************************)
EXTENDS Integers, Sequences, FiniteSets, TLC

VARIABLES now,      \* the wall clock (datetime.utcnow()), in ticks
          pw,       \* hasher: the plaintext last given to hash_password
          cred,     \* hasher: the stored credential under test
          prev,     \* hasher: the previous hash of the same plaintext
          ver,      \* hasher: the last verify_password call and its outcome
          tok,      \* tokens: the token under test
          origin,   \* tokens: how tok was made (who signed it, and how)
          dec,      \* tokens: the last decode_token call and its outcome
          users,    \* the users table, in insertion order
          files,    \* the files written under uploads/
          pending,  \* signup requests between their query and their commit
          bearer    \* the access token the client holds

hashVars  == <<pw, cred, prev, ver>>
tokenVars == <<tok, origin, dec>>
routeVars == <<users, files, pending, bearer>>
vars      == <<now, pw, cred, prev, ver, tok, origin, dec,
               users, files, pending, bearer>>

----------------------------------------------------------------------------
(* Bounds *)

MaxLen         == 2   \* longest plaintext / username / secret suffix
NumSalts       == 2   \* salts hash_password can draw
NumProc        == 2   \* requests the server handles at once
TicksPerSecond == 2   \* clock resolution below the second
MaxHours       == 3   \* the clock stops after this many whole hours
MaxSubTicks    == 2   \* ... and this many ticks into each hour

\* Characters: NUL and one other
NUL  == 0
Char == {NUL, 1}
Str  == UNION {[1..n -> Char] : n \in 0..MaxLen}
Salt == 1..NumSalts

----------------------------------------------------------------------------
(* auth.py: configuration *)

\* SECRET_KEY = "CHANGE_THIS_SECRET_KEY", as a character sequence
SECRET_KEY == <<1, 1>>
ALGORITHM  == "HS256"
Schemes    == {"pbkdf2-sha256"}

TOKEN_HOURS    == 2
SecondsPerHour == 3600
TicksPerHour   == SecondsPerHour * TicksPerSecond

\* The key HMAC-SHA256 derives from a string: the string padded with zero
\* bytes to the 64-byte block, i.e. the string without its trailing NULs.
\* (Strings over 64 bytes are hashed first; the bounds stay below that.)
RECURSIVE HmacKey(_)
HmacKey(s) ==
  IF Len(s) > 0 /\ s[Len(s)] = NUL
    THEN HmacKey(SubSeq(s, 1, Len(s) - 1))
    ELSE s

----------------------------------------------------------------------------
(* auth.py: the credential hasher *)

\* PBKDF2-HMAC-SHA256 of a password under a salt, as a symbolic term
Pbkdf2(password, salt) == <<HmacKey(password), salt>>

\* A stored credential string "$<ident>$<salt>$<checksum>".
Credential(ident, salt, chk) == [ident |-> ident, salt |-> salt, chk |-> chk]

NoCred == Credential("-", 0, <<>>)

\* Strings that are no output of hash_password: the empty string, a string
\* of a scheme the context does not know, and a pbkdf2-sha256 string whose
\* salt and checksum are missing.
MalformedCredentials ==
  { Credential("", 0, <<>>),
    Credential("bcrypt", 1, <<<<1>>, 1>>),
    Credential("pbkdf2-sha256", 0, <<>>) }

WellFormed(hashed) ==
  /\ hashed.ident \in Schemes
  /\ hashed.salt \in Salt
  /\ Len(hashed.chk) = 2

\* pwd_context.hash(password); salt is the random salt the call draws
hash_password(password, salt) ==
  Credential("pbkdf2-sha256", salt, Pbkdf2(password, salt))

verify_password_fixed_salt(password, hashed) ==
  IF hashed.ident \notin Schemes THEN "UnknownHashError"
  ELSE IF ~WellFormed(hashed) THEN "MalformedHashError"
  ELSE IF Pbkdf2(password, 1) = hashed.chk THEN "True"
  ELSE "False"

\* pwd_context.verify(password, hashed): "True", "False", or the name of
\* the exception that leaves the call
verify_password(password, hashed) ==
  IF hashed.ident \notin Schemes THEN "UnknownHashError"
  ELSE IF ~WellFormed(hashed) THEN "MalformedHashError"
  ELSE IF Pbkdf2(password, hashed.salt) = hashed.chk THEN "True"
  ELSE "False"

----------------------------------------------------------------------------
(* auth.py: the session token issuer / validator *)

\* calendar.timegm(t.utctimetuple()): whole seconds, the fraction dropped
timegm(t) == t \div TicksPerSecond

\* The HS* signature of a signing input (header and payload) under a secret
Sign(alg, secret, header, payload) == <<alg, HmacKey(secret), header, payload>>

\* A payload: whether it is a JSON object, and its sub and exp claims.  A
\* claim is a set: empty when the claim is absent, else its one value.
Payload(json, sub, exp) == [json |-> json, sub |-> sub, exp |-> exp]

\* A subject claim that is not a string (a number, say)
NonString == <<-1>>

\* A token: form is "jws" for header.payload.signature, "empty" for "",
\* "garbage" for a string without that shape ("not-a-token"), "None" for
\* Python's None.
Token(form, alg, payload, sig) ==
  [form |-> form, alg |-> alg, payload |-> payload, sig |-> sig]

Jws(alg, secret, payload) ==
  Token("jws", alg, payload, Sign(alg, secret, alg, payload))

NoPayload == Payload(FALSE, {}, {})
EmptyString == Token("empty", "", NoPayload, <<>>)
NotAToken   == Token("garbage", "", NoPayload, <<>>)
NoneToken   == Token("None", "", NoPayload, <<>>)

create_token_user_claim(username, t) ==
  Jws(ALGORITHM, SECRET_KEY,
      Payload(TRUE, {}, {timegm(t + TOKEN_HOURS * TicksPerHour)}))

\* create_token(username) called at time t
create_token(username, t) ==
  Jws(ALGORITHM, SECRET_KEY,
      Payload(TRUE, {username}, {timegm(t + TOKEN_HOURS * TicksPerHour)}))

\* The outcome of a call: the exception that left it ("" for none) and the
\* value returned (empty for None).
Returned(v) == [raised |-> "", ret |-> v]
Raised(e)   == [raised |-> e, ret |-> {}]
Rejected    == Returned({})

decode_token_unverified(token, t) ==
  IF token.form = "None" THEN Raised("AttributeError")
  ELSE IF token.form # "jws" THEN Rejected
  ELSE IF ~token.payload.json THEN Rejected
  ELSE IF \E e \in token.payload.exp : e < timegm(t) THEN Rejected
  ELSE IF NonString \in token.payload.sub THEN Rejected
  ELSE Returned(token.payload.sub)

\* decode_token(token) called at time t
decode_token(token, t) ==
  IF token.form = "None" THEN Raised("AttributeError")   \* None.rsplit
  ELSE IF token.form # "jws" THEN Rejected                \* not enough segments
  ELSE IF token.alg \notin {ALGORITHM} THEN Rejected      \* alg not allowed
  ELSE IF token.sig # Sign(token.alg, SECRET_KEY, token.alg, token.payload)
    THEN Rejected                                         \* bad signature
  ELSE IF ~token.payload.json THEN Rejected               \* invalid payload
  ELSE IF \E e \in token.payload.exp : e < timegm(t)
    THEN Rejected                                         \* ExpiredSignatureError
  ELSE IF NonString \in token.payload.sub THEN Rejected   \* JWTClaimsError
  ELSE Returned(token.payload.sub)                        \* payload.get("sub")

----------------------------------------------------------------------------
(* The state after start-up *)

NoPlain  == <<-1>>
NoCall   == [password |-> <<>>, hashed |-> NoCred, result |-> "-"]
NoOrigin == [by |-> "-", secret |-> <<>>, alg |-> "", sub |-> {}, at |-> 0]
NoDecode == [raised |-> "-", ret |-> {}]

Proc == 1..NumProc
\* no signup in flight
NoSignup  == [username |-> NoPlain, password |-> NoPlain]

Init ==
  /\ now = 0
  /\ pw = NoPlain /\ cred = NoCred /\ prev = NoCred /\ ver = NoCall
  /\ tok = EmptyString /\ origin = NoOrigin /\ dec = NoDecode
  /\ users = <<>> /\ files = {}
  /\ pending = [p \in Proc |-> NoSignup]
  /\ bearer = EmptyString

----------------------------------------------------------------------------
(* The clock *)

TickSub ==
  /\ now % TicksPerHour < MaxSubTicks
  /\ now' = now + 1

TickHour ==
  /\ now \div TicksPerHour < MaxHours
  /\ now' = now + TicksPerHour

----------------------------------------------------------------------------
(* The hasher, called on its own *)

HashPassword(q, s) ==
  /\ pw' = q
  /\ cred' = hash_password(q, s)
  /\ prev' = NoCred
  /\ ver' = NoCall
  /\ UNCHANGED <<now, tokenVars, routeVars>>

\* the same plaintext hashed once more
HashAgain(s) ==
  /\ pw # NoPlain
  /\ prev' = cred
  /\ cred' = hash_password(pw, s)
  /\ ver' = NoCall
  /\ UNCHANGED <<now, pw, tokenVars, routeVars>>

\* a stored string that hash_password did not produce
LoadCredential(c) ==
  /\ pw' = NoPlain
  /\ cred' = c
  /\ prev' = NoCred
  /\ ver' = NoCall
  /\ UNCHANGED <<now, tokenVars, routeVars>>

VerifyPassword(p, h) ==
  /\ h # NoCred
  /\ ver' = [password |-> p, hashed |-> h, result |-> verify_password(p, h)]
  /\ UNCHANGED <<now, pw, cred, prev, tokenVars, routeVars>>

NextHash ==
  \/ \E q \in Str, s \in Salt : HashPassword(q, s)
  \/ \E s \in Salt : HashAgain(s)
  \/ \E c \in MalformedCredentials : LoadCredential(c)
  \/ \E p \in Str, h \in {cred, prev} : VerifyPassword(p, h)

SpecHash == Init /\ [][NextHash]_vars

----------------------------------------------------------------------------
(* The issuer / validator, called on its own *)

\* Secrets a token can be signed with: the server's, the server's with one
\* more character, and the empty one.
Secrets == {SECRET_KEY, <<>>} \cup {Append(SECRET_KEY, c) : c \in Char}
Algorithms == {"HS256", "HS384"}

\* Claims of a foreign token: no subject, a number, two names; no
\* expiration, one three hours after start-up, one beyond the clock's reach.
ExpTimes == {(TOKEN_HOURS + 1) * SecondsPerHour, (MaxHours + 1) * SecondsPerHour}
Subjects == {{}, {NonString}, {<<>>}, {<<1>>}}
Payloads ==
  {NoPayload} \cup {Payload(TRUE, sub, exp) :
                       sub \in Subjects, exp \in {{}} \cup {{e} : e \in ExpTimes}}

IssueToken(u) ==
  /\ tok' = create_token(u, now)
  /\ origin' = [by |-> "create_token", secret |-> SECRET_KEY,
                alg |-> ALGORITHM, sub |-> {u}, at |-> now]
  /\ dec' = NoDecode
  /\ UNCHANGED <<now, hashVars, routeVars>>

\* a token signed by someone else, with a secret and an algorithm of theirs
ForgeToken(secret, alg, payload) ==
  /\ tok' = Jws(alg, secret, payload)
  /\ origin' = [by |-> "signed", secret |-> secret, alg |-> alg,
                sub |-> payload.sub, at |-> 0]
  /\ dec' = NoDecode
  /\ UNCHANGED <<now, hashVars, routeVars>>

\* an issued token whose subject was rewritten, the signature kept
TamperSubject(u) ==
  /\ origin.by = "create_token"
  /\ u \notin tok.payload.sub
  /\ tok' = [tok EXCEPT !.payload.sub = {u}]
  /\ origin' = [origin EXCEPT !.by = "tampered"]
  /\ dec' = NoDecode
  /\ UNCHANGED <<now, hashVars, routeVars>>

PresentRaw(t) ==
  /\ tok' = t
  /\ origin' = [NoOrigin EXCEPT !.by = "raw"]
  /\ dec' = NoDecode
  /\ UNCHANGED <<now, hashVars, routeVars>>

DecodeToken ==
  /\ dec' = decode_token(tok, now)
  /\ UNCHANGED <<now, tok, origin, hashVars, routeVars>>

TokenTick ==
  /\ TickSub \/ TickHour
  /\ dec' = NoDecode
  /\ UNCHANGED <<tok, origin, hashVars, routeVars>>

NextToken ==
  \/ \E u \in Str : IssueToken(u)
  \/ \E k \in Secrets, a \in Algorithms, p \in Payloads : ForgeToken(k, a, p)
  \/ \E u \in Str : TamperSubject(u)
  \/ \E t \in {EmptyString, NotAToken, NoneToken} : PresentRaw(t)
  \/ DecodeToken
  \/ TokenTick

SpecToken == Init /\ [][NextToken]_vars

----------------------------------------------------------------------------
(* models.py: the users table;  main.py: the routes *)

\* A new User row: the profile columns take their defaults
User(id, username, hashed_password) ==
  [id |-> id, username |-> username, hashed_password |-> hashed_password,
   phone |-> <<>>, bio |-> <<>>, photo |-> <<>>, resume |-> <<>>]

\* db.query(models.User).filter_by(username=username).first(): the index of
\* the row, 0 for None
FirstByUsername(db, username) ==
  IF \E i \in 1..Len(db) : db[i].username = username
    THEN CHOOSE i \in 1..Len(db) :
           /\ db[i].username = username
           /\ \A j \in 1..(i - 1) : db[j].username # username
    ELSE 0

InsertUser_not_unique(db, username, hashed_password) ==
  [ok |-> TRUE, db |-> Append(db, User(Len(db) + 1, username, hashed_password))]

\* db.add(new_user); db.commit(): the insert fails on the unique index of
\* username (IntegrityError) and leaves the table as it was
InsertUser(db, username, hashed_password) ==
  IF \E i \in 1..Len(db) : db[i].username = username
    THEN [ok |-> FALSE, db |-> db]
    ELSE [ok |-> TRUE,
          db |-> Append(db, User(Len(db) + 1, username, hashed_password))]

\* What clients send
Usernames   == {<<>>, <<1>>}
Passwords   == {<<1>>, <<1, 0>>, <<1, 1>>}
ProfileData == {[phone |-> <<>>, bio |-> <<>>], [phone |-> <<1>>, bio |-> <<1, 1>>]}
UploadFiles == {[content_type |-> "image/png", ext |-> ".png"],
                [content_type |-> "application/pdf", ext |-> ".pdf"],
                [content_type |-> "image/png", ext |-> ".exe"]}
\* content types that start with "image/"
ImageTypes  == {"image/png", "image/jpeg"}
ImageExts   == {".jpg", ".jpeg", ".png", ".webp"}

\* a token for the name <<1>> signed with a secret of the client's own
ForeignToken == Jws(ALGORITHM, <<>>, Payload(TRUE, {<<1>>}, {}))


\* get_current_user: the row the token resolves to, or the error status.
\* "not username" holds of None and of the empty string.
get_current_user(token, t, db) ==
  LET d == decode_token(token, t) IN
  IF d.raised # "" THEN [status |-> 500, uid |-> 0]
  ELSE IF d.ret = {} \/ d.ret = {<<>>} THEN [status |-> 401, uid |-> 0]
  ELSE LET i == FirstByUsername(db, CHOOSE u \in d.ret : TRUE) IN
       IF i = 0 THEN [status |-> 404, uid |-> 0]
       ELSE [status |-> 200, uid |-> i]

\* signup, up to its query: the status answered, 0 when the request goes on
signup_query(username, db) ==
  IF FirstByUsername(db, username) # 0 THEN 400 ELSE 0

\* signup, up to its query: an existing username is answered 400
SignupCheck(p, username, password) ==
  /\ pending[p] = NoSignup
  /\ pending' = IF signup_query(username, users) = 400 THEN pending
                ELSE [pending EXCEPT ![p] =
                        [username |-> username, password |-> password]]
  /\ UNCHANGED <<now, hashVars, tokenVars, users, files, bearer>>

\* signup, from hash_password to the commit: 200, or 500 when the commit
\* fails
SignupCommit(p, salt) ==
  /\ pending[p] # NoSignup
  /\ users' = InsertUser(users, pending[p].username,
                         hash_password(pending[p].password, salt)).db
  /\ pending' = [pending EXCEPT ![p] = NoSignup]
  /\ UNCHANGED <<now, hashVars, tokenVars, files, bearer>>

login_unverified(username, password, t, db) ==
  LET i == FirstByUsername(db, username) IN
  IF i = 0 THEN [status |-> 401, token |-> EmptyString]
  ELSE [status |-> 200, token |-> create_token(db[i].username, t)]

\* login: the status answered and the token minted (the empty string when
\* create_token is not called)
login(username, password, t, db) ==
  LET i == FirstByUsername(db, username)
      v == IF i = 0 THEN "False"
           ELSE verify_password(password, db[i].hashed_password)
  IN
  IF i = 0 \/ v = "False" THEN [status |-> 401, token |-> EmptyString]
  ELSE IF v # "True" THEN [status |-> 500, token |-> EmptyString]
  ELSE [status |-> 200, token |-> create_token(db[i].username, t)]

\* a login request; the client keeps the token of a 200
Login(username, password) ==
  /\ LET r == login(username, password, now, users) IN
       bearer' = IF r.status = 200 THEN r.token ELSE bearer
  /\ UNCHANGED <<now, hashVars, tokenVars, users, files, pending>>

\* The token a request presents: the one the client holds, or a token of
\* foreign make
Presented(which) == IF which = "bearer" THEN bearer ELSE ForeignToken
Presentable == {"bearer", "foreign"}

\* read_me answers from the row and writes nothing
ReadMe(which) ==
  /\ get_current_user(Presented(which), now, users).status \in {200, 401, 404, 500}
  /\ UNCHANGED vars

update_profile_first_row(token, data, t, db) ==
  IF get_current_user(token, t, db).status # 200 THEN db
  ELSE [db EXCEPT ![1].phone = data.phone, ![1].bio = data.bio]

\* update_profile: the table after the request
update_profile(token, data, t, db) ==
  LET cu == get_current_user(token, t, db) IN
  IF cu.status # 200 THEN db
  ELSE [db EXCEPT ![cu.uid].phone = data.phone, ![cu.uid].bio = data.bio]

UpdateProfile(which, data) ==
  /\ users' = update_profile(Presented(which), data, now, users)
  /\ UNCHANGED <<now, hashVars, tokenVars, files, pending, bearer>>

\* upload_photo: the status answered and the path written (empty for none)
upload_photo(token, file, t, db) ==
  LET cu == get_current_user(token, t, db) IN
  IF cu.status # 200 THEN [status |-> cu.status, uid |-> 0, path |-> <<>>]
  ELSE IF file.content_type \notin ImageTypes
    THEN [status |-> 400, uid |-> cu.uid, path |-> <<>>]
  ELSE IF file.ext \notin ImageExts
    THEN [status |-> 400, uid |-> cu.uid, path |-> <<>>]
  ELSE [status |-> 200, uid |-> cu.uid,
        path |-> <<"photos", db[cu.uid].id, file.ext>>]

UploadPhoto(which, file) ==
  /\ LET r == upload_photo(Presented(which), file, now, users) IN
       /\ users' = IF r.status = 200
                     THEN [users EXCEPT ![r.uid].photo = r.path] ELSE users
       /\ files' = IF r.status = 200 THEN files \cup {r.path} ELSE files
  /\ UNCHANGED <<now, hashVars, tokenVars, pending, bearer>>

\* upload_resume: the status answered and the path written (empty for none)
upload_resume(token, file, t, db) ==
  LET cu == get_current_user(token, t, db) IN
  IF cu.status # 200 THEN [status |-> cu.status, uid |-> 0, path |-> <<>>]
  ELSE IF file.content_type # "application/pdf"
    THEN [status |-> 400, uid |-> cu.uid, path |-> <<>>]
  ELSE [status |-> 200, uid |-> cu.uid,
        path |-> <<"resumes", db[cu.uid].id, ".pdf">>]

UploadResume(which, file) ==
  /\ LET r == upload_resume(Presented(which), file, now, users) IN
       /\ users' = IF r.status = 200
                     THEN [users EXCEPT ![r.uid].resume = r.path] ELSE users
       /\ files' = IF r.status = 200 THEN files \cup {r.path} ELSE files
  /\ UNCHANGED <<now, hashVars, tokenVars, pending, bearer>>

\* an hour passes between two requests
RouteTick ==
  /\ TickHour
  /\ UNCHANGED <<hashVars, tokenVars, routeVars>>

\* signup requests of the processes P, for the accounts A
Signup(P, A) ==
  \E p \in P :
    \/ \E a \in A : SignupCheck(p, a.username, a.password)
    \/ \E s \in Salt : SignupCommit(p, s)

\* The routes, the requests handled one at a time.
Next ==
  \/ Signup({1}, [username : Usernames, password : Passwords])
  \/ \E u \in Usernames, w \in Passwords : Login(u, w)
  \/ \E k \in Presentable : ReadMe(k)
  \/ \E k \in Presentable, d \in ProfileData : UpdateProfile(k, d)
  \/ \E k \in Presentable, f \in UploadFiles : UploadPhoto(k, f)
  \/ \E k \in Presentable, f \in UploadFiles : UploadResume(k, f)
  \/ RouteTick

Spec == Init /\ [][Next]_vars

\* Signup requests alone, NumProc of them at once, for every name and
\* password.
NextSignup == Signup(Proc, [username : Usernames, password : Passwords])

SpecSignup == Init /\ [][NextSignup]_vars

----------------------------------------------------------------------------
(* Properties of the issuer / validator (SpecToken) *)

Decoded == dec # NoDecode

\* the instant, in ticks, at which the token under test expires
Expiry == {e * TicksPerSecond : e \in tok.payload.exp}

\* C1: a token made by create_token(u), decoded before its expiration
\* instant, decodes to exactly u.
C1_RoundTrip ==
  (Decoded /\ origin.by = "create_token" /\ \A x \in Expiry : now < x)
    => dec = Returned(origin.sub)

\* a name with a trailing NUL, issued and decoded at the same instant
C1_Witness ==
  /\ Decoded /\ origin.by = "create_token" /\ now = origin.at
  /\ origin.sub = {<<1, 0>>} /\ dec = Returned({<<1, 0>>})

\* C2: a token whose expiration instant is at or before the current time
\* is rejected, whatever its signature.
C2_ExpiredRejected ==
  (Decoded /\ tok.form = "jws" /\ \E x \in Expiry : x <= now)
    => dec = Rejected

\* C3 as claimed: a token signed with a secret other than SECRET_KEY, or
\* with an algorithm other than HS256, is rejected.
C3_OtherSecretRejected ==
  (Decoded /\ origin.by = "signed"
     /\ (origin.secret # SECRET_KEY \/ origin.alg # ALGORITHM))
    => dec = Rejected

\* C3 as amended: a token signed with a secret whose HMAC key is not that
\* of SECRET_KEY (the secret is not SECRET_KEY followed by NULs), or with an
\* algorithm other than HS256, is rejected, whatever its claims.
C3_OtherKeyRejected ==
  (Decoded /\ origin.by = "signed"
     /\ (HmacKey(origin.secret) # HmacKey(SECRET_KEY) \/ origin.alg # ALGORITHM))
    => dec = Rejected

\* a well-formed, unexpired claim set under HS256 and a secret of another
\* key: only the signature is wrong
C3_Witness ==
  /\ Decoded /\ origin.by = "signed"
  /\ origin.secret = Append(SECRET_KEY, 1) /\ origin.alg = ALGORITHM
  /\ tok.payload = Payload(TRUE, {<<1>>}, {})
  /\ dec = Rejected

BadSignature ==
  tok.sig # Sign(ALGORITHM, SECRET_KEY, tok.alg, tok.payload)

\* C4: for "", a non-token string, None, a bad signature, an undecodable
\* payload and a payload without a subject, decode_token returns None and
\* no exception leaves it.
C4_FailsClosed ==
  (Decoded /\ ( \/ tok \in {EmptyString, NotAToken, NoneToken}
                \/ tok.form = "jws" /\ ( \/ BadSignature
                                         \/ ~tok.payload.json
                                         \/ tok.payload.sub = {} )))
    => dec = Rejected

----------------------------------------------------------------------------
(* Properties of the hasher (SpecHash) *)

Verified == ver # NoCall

\* C5: verifying against a malformed credential string answers false.
C5_MalformedIsFalse ==
  (Verified /\ ver.hashed \in MalformedCredentials) => ver.result = "False"

\* C6 as claimed: a hash of q verifies against p exactly when p = q.
C6_VerifyIffEqual ==
  (Verified /\ pw # NoPlain) => (ver.result = "True" <=> ver.password = pw)

\* C6 as amended: a hash of q verifies against p exactly when p and q are
\* equal up to trailing NUL characters (they give the same HMAC key); that
\* holds of every hash of q, and two hashes of q under two salts differ.
C6_VerifyIffSameKey ==
  /\ (Verified /\ pw # NoPlain)
       => (ver.result = "True" <=> HmacKey(ver.password) = HmacKey(pw))
  /\ (prev # NoCred /\ prev.salt # cred.salt) => prev # cred

\* the plaintext hashed twice, to two outputs, the older one verified
C6_Witness ==
  /\ Verified /\ pw = <<1>> /\ prev # NoCred /\ prev # cred
  /\ ver.hashed = prev /\ ver.password = pw /\ ver.result = "True"

----------------------------------------------------------------------------
(* Properties of the routes (Spec, SpecSignup) *)

\* the rows whose username and stored credential a login (u, w) matches
Matching(u, w) ==
  {i \in 1..Len(users) :
     /\ users[i].username = u
     /\ verify_password(w, users[i].hashed_password) = "True"}

Fields == {"id", "username", "hashed_password", "phone", "bio", "photo", "resume"}

\* the step changes at most the columns F of row uid, and no other row
OnlyChanged(uid, F) ==
  /\ Len(users') = Len(users)
  /\ \A i \in 1..Len(users) :
       IF i = uid THEN \A f \in Fields \ F : users'[i][f] = users[i][f]
       ELSE users'[i] = users[i]

Resolved(which) == get_current_user(Presented(which), now, users).uid

\* C8: a step that changes the table keeps every row, and the username
\* and hashed_password of every row, and is either a signup that succeeds,
\* which only adds a row, or an update_profile, upload_photo or
\* upload_resume, which changes only phone and bio, photo, resume of the
\* row the presented token resolves to; login, read_me and a signup that
\* is refused change nothing of the table.
C8_Step ==
  \/ users' = users
  \/ /\ Len(users') >= Len(users)
     /\ \A i \in 1..Len(users) :
          /\ users'[i].username = users[i].username
          /\ users'[i].hashed_password = users[i].hashed_password
     /\ \/ /\ \E s \in Salt : SignupCommit(1, s)
           /\ Len(users') = Len(users) + 1
           /\ SubSeq(users', 1, Len(users)) = users
        \/ \E k \in Presentable, d \in ProfileData :
             UpdateProfile(k, d) /\ OnlyChanged(Resolved(k), {"phone", "bio"})
        \/ \E k \in Presentable, f \in UploadFiles :
             UploadPhoto(k, f) /\ OnlyChanged(Resolved(k), {"photo"})
        \/ \E k \in Presentable, f \in UploadFiles :
             UploadResume(k, f) /\ OnlyChanged(Resolved(k), {"resume"})

\* C8: every step of the routes keeps the stored credentials and writes
\* only what its route may write.
C8_CredentialsKept == [][C8_Step]_vars

\* two rows; the second has used all three routes, the first is as it was
\* created
C8_Witness ==
  /\ Len(users) = 2
  /\ users[1] = User(1, users[1].username, users[1].hashed_password)
  /\ users[2].phone # <<>> /\ users[2].photo # <<>> /\ users[2].resume # <<>>

\* C9: the token of a successful login, presented before it expires,
\* resolves to the row of the user who logged in (not 401, not 404).
C9_LoginTokenResolves ==
  (bearer # EmptyString
     /\ \A e \in bearer.payload.exp : now < e * TicksPerSecond)
    => LET cu == get_current_user(bearer, now, users) IN
         /\ cu.status = 200
         /\ bearer.payload.sub = {users[cu.uid].username}

UniqueUsernames(db) ==
  \A i, j \in 1..Len(db) : db[i].username = db[j].username => i = j

\* C10: whatever the interleaving of signups, after each step no two rows
\* share a username, and the rows that existed before the step are as they
\* were: a signup for a taken name adds no row and replaces no credential.
C10_Step ==
  /\ UniqueUsernames(users')
  /\ Len(users') >= Len(users)
  /\ SubSeq(users', 1, Len(users)) = users
  /\ Len(users') > Len(users) =>
       FirstByUsername(users, users'[Len(users')].username) = 0

\* C10: every step of concurrent signups keeps one row per username and
\* the rows already stored.
C10_OneRowPerUsername == [][C10_Step]_vars

\* a signup passed its query, and before its commit another request
\* created the row of the same name with another password
C10_Witness ==
  \E p \in Proc, i \in 1..Len(users) :
    /\ pending[p] # NoSignup
    /\ users[i].username = pending[p].username
    /\ verify_password(pending[p].password, users[i].hashed_password) = "False"

====
